---- MODULE Spec2Model ----
(***************************************************************************)
(* A model of v8go.cc, the C boundary between a host program and the V8    *)
(* engine: isolates, object templates, contexts, values, RunScript and     *)
(* the error marshaller.  The engine itself is a black box; what it        *)
(* returns (compile results, thrown values, diagnostics) is drawn from     *)
(* small sets.                                                             *)
(***************************************************************************)
EXTENDS Integers, Sequences, FiniteSets, TLC

\* ------------------------------------------------------------------ bounds
NumThreads == 2      \* host threads calling into the boundary
MaxIsolates == 2     \* Isolate slots
MaxCtx == 1          \* m_ctx slots
MaxVal == 1          \* m_value slots
MaxTmpl == 1         \* m_object_template slots
MaxGlobals == 3      \* cap on the global (persistent) handles of one isolate
MaxInitCalls == 2    \* cap on the number of Init() calls
MaxStrLen == 2       \* longest host string passed to NewValueString
MaxWords == 2        \* most words passed to NewValueBigIntFromWords

Threads == 1..NumThreads
IsoIds == 1..MaxIsolates
CtxIds == 1..MaxCtx
ValIds == 1..MaxVal
TmplIds == 1..MaxTmpl

NoThread == 0        \* the Locker of an isolate is free
NullHandle == 0      \* a null IsolatePtr / ContextPtr / ValuePtr / ObjectTemplatePtr
Uninit == -1         \* a pointer field that was never assigned

\* ----------------------------------------------------------------- strings
\* A string is a sequence of characters; a C string pointer is either
\* nullptr or points to a buffer.
nullptr == <<>>
Ptr(s) == <<s>>

NUL == "NUL"
Chars == {"a", "b"}

RECURSIVE StringsOfLen(_)
StringsOfLen(n) ==
  IF n = 0 THEN {<<>>}
  ELSE {Append(s, c) : s \in StringsOfLen(n - 1), c \in Chars}

RECURSIVE StringsUpTo(_)
StringsUpTo(n) ==
  IF n = 0 THEN StringsOfLen(0) ELSE StringsOfLen(n) \cup StringsUpTo(n - 1)

\* strlen(): the bytes of a buffer before its first NUL
RECURSIVE CStr(_)
CStr(buf) ==
  IF buf = <<>> \/ Head(buf) = NUL THEN <<>>
  ELSE <<Head(buf)>> \o CStr(Tail(buf))

Digit(d) == <<"0", "1", "2", "3", "4", "5", "6", "7", "8", "9">>[d + 1]

\* operator<<(int) of std::ostringstream; the digits of a negative n are
\* those of -(n + 1) + 1, which stays inside the int
RECURSIVE ToDecimal(_)
ToDecimal(n) ==
  IF n < 0
  THEN LET m == 0 - (n + 1)
       IN <<"-">> \o (IF m % 10 = 9 THEN ToDecimal(m \div 10 + 1) \o <<"0">>
                      ELSE (IF m \div 10 = 0 THEN <<>> ELSE ToDecimal(m \div 10))
                             \o <<Digit((m % 10) + 1)>>)
  ELSE IF n < 10 THEN <<Digit(n)>>
  ELSE ToDecimal(n \div 10) \o <<Digit(n % 10)>>

\* const char* CopyString(std::string str)
CopyString(str) == Ptr(str)

\* const char* CopyString(String::Utf8Value& value); *value is a char*, and
\* the std::string built from it stops at the first NUL
CopyStringUtf8Value(value) ==
  IF Len(value) = 0 THEN nullptr ELSE CopyString(CStr(value))

ExecutionTerminatedMsg ==
  <<"E","x","e","c","u","t","i","o","n","T","e","r","m","i","n","a","t","e","d",":",
    " ","s","c","r","i","p","t"," ","e","x","e","c","u","t","i","o","n"," ",
    "h","a","s"," ","b","e","e","n"," ","t","e","r","m","i","n","a","t","e","d">>

\* ------------------------------------------------------------ engine values
\* Maybe<T> / MaybeLocal<T>: Nothing or Just(x)
Nothing == <<>>
Just(x) == <<x>>

Undefined == [type |-> "undefined", v |-> <<>>]
StringValue(s) == [type |-> "string", v |-> s]

\* A uint32_t is a pair <<hi, lo>> of 16-bit halves and a uint64_t is four
\* 16-bit limbs, most significant first: the checker's integers are the
\* int32_t of the code and hold nothing wider.
Half == 65536
Int32Min == (0 - 2147483647) - 1
Int32Max == 2147483647
ZeroWord == <<0, 0, 0, 0>>

\* a Number above the int32 range, a Symbol, a BigInt of sign and 64-bit
\* words (least significant word first)
Uint32Number(hi, lo) == [type |-> "uint32", v |-> <<hi, lo>>]
SymbolValue == [type |-> "symbol", v |-> <<>>]
BigIntValue(sign, words) == [type |-> "bigint", v |-> [sign |-> sign, words |-> words]]

\* Integer::New(iso, int32_t)
IntegerNew(n) == [type |-> "int32", v |-> n]

\* Integer::NewFromUnsigned(iso, uint32_t): the same Number as IntegerNew
\* where the value fits an int32
IntegerNewFromUnsigned(u) ==
  IF u[1] < Half \div 2 THEN IntegerNew(u[1] * Half + u[2])
  ELSE Uint32Number(u[1], u[2])

\* long division by ten of limbs (most significant first), r carried in
RECURSIVE DivTen(_, _)
DivTen(limbs, r) ==
  IF limbs = <<>> THEN [q |-> <<>>, r |-> r]
  ELSE LET cur == r * Half + Head(limbs)
           rest == DivTen(Tail(limbs), cur % 10)
       IN [q |-> <<cur \div 10>> \o rest.q, r |-> rest.r]

IsZero(limbs) == \A i \in 1..Len(limbs) : limbs[i] = 0

RECURSIVE LimbsToDecimal(_)
LimbsToDecimal(limbs) ==
  IF IsZero(limbs) THEN <<>>
  ELSE LET d == DivTen(limbs, 0) IN LimbsToDecimal(d.q) \o <<Digit(d.r)>>

\* the limbs of a BigInt's magnitude, most significant first
RECURSIVE Magnitude(_)
Magnitude(words) ==
  IF words = <<>> THEN <<>> ELSE Magnitude(Tail(words)) \o Head(words)

\* String::Utf8Value(iso, value): the engine's ToString of a value; a
\* Symbol has none and leaves the Utf8Value empty
Utf8Value(d) ==
  CASE d.type = "string" -> d.v
    [] d.type = "int32" -> ToDecimal(d.v)
    [] d.type = "uint32" -> LimbsToDecimal(d.v)
    [] d.type = "symbol" -> <<>>
    [] d.type = "bigint" ->
         IF IsZero(Magnitude(d.v.words)) THEN <<"0">>
         ELSE (IF d.v.sign = 1 THEN <<"-">> ELSE <<>>)
                \o LimbsToDecimal(Magnitude(d.v.words))
    [] OTHER -> <<"u","n","d","e","f","i","n","e","d">>

\* Value::Int32Value(ctx): ToInt32 of the value's ToNumber, which throws for
\* a Symbol and a BigInt; undefined and text that is no numeral are NaN
Int32Value(d) ==
  CASE d.type = "int32" -> Just(d.v)
    [] d.type = "uint32" -> Just((d.v[1] - Half) * Half + d.v[2])
    [] d.type \in {"symbol", "bigint"} -> Nothing
    [] OTHER -> Just(0)

\* Value::Uint32Value(ctx): ToUint32 of the value's ToNumber
Uint32Value(d) ==
  CASE d.type = "int32" ->
         IF d.v >= 0 THEN Just(<<d.v \div Half, d.v % Half>>)
         ELSE LET m == d.v - Int32Min
              IN Just(<<m \div Half + Half \div 2, m % Half>>)
    [] d.type = "uint32" -> Just(d.v)
    [] d.type \in {"symbol", "bigint"} -> Nothing
    [] OTHER -> Just(<<0, 0>>)

\* Value::ToBigInt(ctx): throws for a Number, undefined and a Symbol; the
\* empty text reads as 0n and text that is no numeral throws
ToBigInt(d) ==
  CASE d.type = "bigint" -> Just(d.v)
    [] d.type = "string" /\ d.v = <<>> -> Just([sign |-> 0, words |-> <<>>])
    [] OTHER -> Nothing

\* the words without the zero words at the most significant end
RECURSIVE Trimmed(_)
Trimmed(words) ==
  IF words # <<>> /\ words[Len(words)] = ZeroWord
  THEN Trimmed(SubSeq(words, 1, Len(words) - 1)) ELSE words

\* BigInt::NewFromWords(ctx, sign_bit, word_count, words): the engine keeps
\* no zero word at the most significant end and no sign on zero
NewFromWords(sign_bit, words) ==
  IF Trimmed(words) = <<>> THEN BigIntValue(0, <<>>)
  ELSE BigIntValue(sign_bit, Trimmed(words))

\* ------------------------------------------------------------------- state
VARIABLES
  input,      \* what the host has in hand to pass to the constructors and RunScript
  initCalls,  \* number of times Init() ran V8::InitializePlatform
  aborted,    \* the process died (fatal engine check or memory fault)
  isolates,   \* IsoIds -> the Isolate at that address
  locker,     \* IsoIds -> the thread that holds the isolate's v8::Locker
  ctxs,       \* CtxIds -> the m_ctx at that address
  vals,       \* ValIds -> the m_value at that address
  tmpls,      \* TmplIds -> the m_object_template at that address
  pc,         \* Threads -> the statement the thread is at
  frame,      \* Threads -> arguments and locals of the call in progress
  guards      \* Threads -> the scoped objects alive on the thread's stack

vars == <<input, initCalls, aborted, isolates, locker, ctxs, vals, tmpls, pc, frame,
          guards>>

NoError == [msg |-> nullptr, location |-> nullptr, stack |-> nullptr]
NoCatch == [hasCaught |-> FALSE, hasTerminated |-> FALSE]
IdleFrame ==
  [op |-> "none", iso |-> NullHandle, ctx |-> NullHandle, val |-> NullHandle,
   tmpl |-> NullHandle, obj |-> NullHandle, arg |-> <<>>, origin |-> <<>>,
   tc |-> NoCatch, rtn |-> <<>>]

FreeIsolate == [live |-> FALSE, terminating |-> FALSE, globals |-> 0,
                captureStack |-> FALSE]
FreeCtx == [alloc |-> FALSE, iso |-> NullHandle, ref |-> FALSE]
FreeVal == [alloc |-> FALSE, iso |-> NullHandle, ctx_ptr |-> NullHandle,
            data |-> Undefined, ref |-> FALSE]
PropNames == {"p"}
FreeTmpl == [alloc |-> FALSE, iso |-> NullHandle, ref |-> FALSE,
             props |-> [n \in PropNames |-> "none"]]

\* src lines 16-17: the platform and the allocator are built by the static
\* initialisers, before any call; nothing else exists yet
Fresh ==
  /\ aborted = FALSE
  /\ isolates = [e \in IsoIds |-> FreeIsolate]
  /\ locker = [e \in IsoIds |-> NoThread]
  /\ ctxs = [c \in CtxIds |-> FreeCtx]
  /\ vals = [v \in ValIds |-> FreeVal]
  /\ tmpls = [m \in TmplIds |-> FreeTmpl]
  /\ pc = [t \in Threads |-> "idle"]
  /\ frame = [t \in Threads |-> IdleFrame]
  /\ guards = [t \in Threads |-> <<>>]

\* what the engine makes of a source text: it fails to compile, runs to a
\* value, throws, or never finishes on its own; with what it leaves in the
\* TryCatch when it fails
Script(run, exception, message, stack, result) ==
  [run |-> run, exception |-> exception, message |-> message, stack |-> stack,
   result |-> result]

\* the host's arguments: the string of NewValueString, the int32_t of
\* NewValueInteger, the uint32_t of NewValueIntegerFromUnsigned, sign and
\* words of NewValueBigIntFromWords, source and origin of RunScript, and
\* the constructor the host builds its numbers with
NoInput ==
  [s |-> <<>>, n |-> 0, u |-> <<0, 0>>, sign_bit |-> 0, words |-> <<>>,
   script |-> Script("value", Undefined, Nothing, Nothing, Undefined),
   origin |-> <<>>, ctor |-> "none"]

Init ==
  /\ input = NoInput
  /\ initCalls = 0
  /\ Fresh

Min(S) == CHOOSE x \in S : \A y \in S : x <= y

\* ------------------------------------------------------- scoped C++ objects
Guard(kind, e, obj, has_lock) ==
  [kind |-> kind, iso |-> e, obj |-> obj, has_lock |-> has_lock]

\* v8::Locker(iso): takes the isolate's lock unless this thread has it
\* already; the thread waits while another thread holds it
LockerFree_NoWait(t, e) == TRUE
LockerFree(t, e) == locker[e] \in {NoThread, t}
LockerGuard_AlwaysOwns(t, e) == Guard("Locker", e, NullHandle, TRUE)
LockerGuard(t, e) == Guard("Locker", e, NullHandle, locker[e] # t)

\* Locker locker(iso); Isolate::Scope isolate_scope(iso); HandleScope handle_scope(iso);
IsolateScopeGuards(t, e) ==
  <<LockerGuard(t, e), Guard("IsolateScope", e, NullHandle, FALSE),
    Guard("HandleScope", e, NullHandle, FALSE)>>

\* the thread constructs the scoped objects gs, in that order
Construct_OneLockForAll(t, e, gs) ==
  /\ \A x \in IsoIds : LockerFree(t, x)
  /\ locker' = [locker EXCEPT ![e] = t]
  /\ guards' = [guards EXCEPT ![t] = @ \o gs]
Construct(t, e, gs) ==
  /\ LockerFree(t, e)
  /\ locker' = [locker EXCEPT ![e] = t]
  /\ guards' = [guards EXCEPT ![t] = @ \o gs]

\* C++ destroys the automatic objects of a function in the reverse order of
\* their construction, on every way out: the next one to go is the last
NextDestroyed_First(gs) == 1
NextDestroyed(gs) == Len(gs)

Without(gs, i) == SubSeq(gs, 1, i - 1) \o SubSeq(gs, i + 1, Len(gs))

\* the destructor of the next scoped object runs
Destroy(t) ==
  LET i == NextDestroyed(guards[t])
      g == guards[t][i]
  IN /\ guards' = [guards EXCEPT ![t] = Without(@, i)]
     /\ locker' = IF g.kind = "Locker" /\ g.has_lock
                  THEN [locker EXCEPT ![g.iso] = NoThread] ELSE locker

Kinds(gs) == [i \in 1..Len(gs) |-> gs[i].kind]

\* the isolates the thread has entered (Isolate::Scope) and not left
Entered(t) == {guards[t][i].iso : i \in {j \in 1..Len(guards[t]) :
                                         guards[t][j].kind = "IsolateScope"}}

Busy(t) == pc[t] # "idle"

\* ------------------------------------------------------------ the host side
\* The host keeps its side of the contract: it passes handles that are
\* allocated, and disposes no handle that another of its calls is using.
CanCall(t) == pc[t] = "idle" /\ ~aborted
IsoInUse(e) == \E t \in Threads : Busy(t) /\ frame[t].iso = e
CtxInUse(c) == \E t \in Threads : Busy(t) /\ frame[t].op = "RunScript"
                                  /\ frame[t].ctx = c
ValInUse(v) == \E t \in Threads : Busy(t) /\ frame[t].val = v
TmplInUse(m) ==
  \E t \in Threads : Busy(t) /\ (frame[t].tmpl = m \/ frame[t].obj = m)

ValueCtors == {"NewValueInteger", "NewValueIntegerFromUnsigned", "NewValueString",
               "NewValueBigIntFromWords"}
AllocatesVal(op) == op \in ValueCtors \cup {"RunScript"}
GlobalsOf(op) ==
  IF AllocatesVal(op) THEN 2
  ELSE IF op \in {"NewContext", "NewObjectTemplate"} THEN 1 ELSE 0

RECURSIVE Sum(_, _)
Sum(f, S) == IF S = {} THEN 0
             ELSE LET x == CHOOSE y \in S : TRUE IN f[x] + Sum(f, S \ {x})

\* calls in flight that have not yet allocated what they may allocate
Pending(t) == pc[t] \in ValueCtors \cup {"NewContext", "NewObjectTemplate",
                                          "Compile", "Run"}
PendingVals == Cardinality({t \in Threads : Pending(t) /\ AllocatesVal(frame[t].op)})
PendingCtxs == Cardinality({t \in Threads : Pending(t) /\ frame[t].op = "NewContext"})
PendingTmpls ==
  Cardinality({t \in Threads : Pending(t) /\ frame[t].op = "NewObjectTemplate"})
PendingGlobals(e) ==
  Sum([t \in Threads |->
         IF Pending(t) /\ frame[t].iso = e THEN GlobalsOf(frame[t].op) ELSE 0],
      Threads)

FreeVals == {v \in ValIds : ~vals[v].alloc}
FreeCtxs == {c \in CtxIds : ~ctxs[c].alloc}
FreeTmpls == {m \in TmplIds : ~tmpls[m].alloc}

\* the host has room for what the call will allocate
Room(e, op) ==
  /\ isolates[e].globals + PendingGlobals(e) + GlobalsOf(op) <= MaxGlobals
  /\ AllocatesVal(op) => Cardinality(FreeVals) > PendingVals
  /\ op = "NewContext" => Cardinality(FreeCtxs) > PendingCtxs
  /\ op = "NewObjectTemplate" => Cardinality(FreeTmpls) > PendingTmpls

\* the call starts: the thread is at statement start with locals f
Call(t, f, start) ==
  /\ pc' = [pc EXCEPT ![t] = start]
  /\ frame' = [frame EXCEPT ![t] = f]

\* `return r;` with the automatic objects still to be destroyed
Leave(t, r) ==
  /\ pc' = [pc EXCEPT ![t] = "Exit"]
  /\ frame' = [frame EXCEPT ![t].rtn = r]

\* the destructors run at the end of the function; after the last one the
\* call is back in the host
Exit(t) ==
  /\ pc[t] = "Exit" /\ ~aborted
  /\ Destroy(t)
  /\ IF Len(guards[t]) = 1
     THEN /\ pc' = [pc EXCEPT ![t] = "idle"]
          /\ frame' = [frame EXCEPT ![t] = IdleFrame]
     ELSE UNCHANGED <<pc, frame>>
  /\ UNCHANGED <<input, initCalls, aborted, isolates, ctxs, vals, tmpls>>

\* a thread other than t holds the lock of e
HeldByOther(t, e) == locker[e] \notin {NoThread, t}

\* Persistent::Reset(iso, Persistent<T>(iso, local)): the temporary
\* Persistent takes a global handle, Reset copies it into a second one, and
\* the temporary's destructor (kResetInDestructor is false for the default
\* traits) leaves the first one in place
ResetFromTemporary(e) == [isolates EXCEPT ![e].globals = @ + 2]
\* Persistent::Reset(iso, local): one global handle
ResetFromLocal(e) == [isolates EXCEPT ![e].globals = @ + 1]

\* ---------------------------------------------------------------- Isolate
\* void Init(): runs V8::InitializePlatform and V8::Initialize on every call;
\* the engine either tolerates a repeated initialisation or fails its check
InitCall(t) ==
  /\ CanCall(t)
  /\ initCalls < MaxInitCalls
  /\ initCalls' = initCalls + 1
  /\ \E tolerated \in (IF initCalls = 0 THEN {TRUE} ELSE {TRUE, FALSE}) :
       aborted' = ~tolerated
  /\ UNCHANGED <<input, isolates, locker, ctxs, vals, tmpls, pc, frame, guards>>

\* IsolatePtr NewIsolate(): Isolate::New, whether or not Init() has run; an
\* engine that was never initialised may fault
NewIsolate(t) ==
  /\ CanCall(t)
  /\ {x \in IsoIds : ~isolates[x].live} # {}
  /\ LET e == Min({x \in IsoIds : ~isolates[x].live}) IN
     \E ok \in (IF initCalls = 0 THEN {TRUE, FALSE} ELSE {TRUE}) :
       IF ok
       THEN /\ isolates' = [isolates EXCEPT ![e] = [FreeIsolate EXCEPT !.live = TRUE]]
            /\ UNCHANGED aborted
       ELSE /\ aborted' = TRUE
            /\ UNCHANGED isolates
  /\ UNCHANGED <<input, initCalls, locker, ctxs, vals, tmpls, pc, frame, guards>>

\* the host disposes an Environment after its Values, Contexts and Templates
\* and while none of its calls is inside it
MayDisposeIsolate(ptr) ==
  /\ isolates[ptr].live /\ ~IsoInUse(ptr)
  /\ \A c \in CtxIds : ctxs[c].alloc => ctxs[c].iso # ptr
  /\ \A v \in ValIds : vals[v].alloc => vals[v].iso # ptr
  /\ \A m \in TmplIds : tmpls[m].alloc => tmpls[m].iso # ptr

\* void IsolateDispose(IsolatePtr ptr): no Locker
IsolateDispose(t, ptr) ==
  /\ CanCall(t)
  /\ ptr # NullHandle => MayDisposeIsolate(ptr)
  /\ IF ptr = NullHandle
     THEN UNCHANGED isolates
     ELSE isolates' = [isolates EXCEPT ![ptr] = FreeIsolate]
  /\ UNCHANGED <<input, initCalls, aborted, locker, ctxs, vals, tmpls, pc, frame, guards>>

\* void IsolateTerminateExecution(IsolatePtr ptr): no Locker; the request
\* stays with the isolate until running script reaches a safe point
IsolateTerminateExecution_Locked(t, ptr) ==
  /\ CanCall(t)
  /\ isolates[ptr].live
  /\ LockerFree(t, ptr)
  /\ isolates' = [isolates EXCEPT ![ptr].terminating = TRUE]
  /\ UNCHANGED <<input, initCalls, aborted, locker, ctxs, vals, tmpls, pc, frame, guards>>
IsolateTerminateExecution(t, ptr) ==
  /\ CanCall(t)
  /\ isolates[ptr].live
  /\ isolates' = [isolates EXCEPT ![ptr].terminating = TRUE]
  /\ UNCHANGED <<input, initCalls, aborted, locker, ctxs, vals, tmpls, pc, frame, guards>>

\* number_of_native_contexts, as far as the boundary can tell
NativeContexts(e) == Cardinality({c \in CtxIds : ctxs[c].alloc /\ ctxs[c].iso = e})

HeapStatistics(ptr) ==
  IF ptr = NullHandle
  THEN [zeroed |-> TRUE, number_of_native_contexts |-> 0]
  ELSE [zeroed |-> FALSE, number_of_native_contexts |-> NativeContexts(ptr)]

\* IsolateHStatistics IsolationGetHeapStatistics(IsolatePtr ptr): no Locker;
\* a read of the heap's counters that changes nothing
IsolationGetHeapStatistics(t, ptr) ==
  /\ CanCall(t)
  /\ ptr # NullHandle => isolates[ptr].live
  /\ HeapStatistics(ptr).zeroed = (ptr = NullHandle)
  /\ UNCHANGED vars

\* --------------------------------------------------------- ObjectTemplate
\* ObjectTemplatePtr NewObjectTemplate(IsolatePtr iso_ptr), lines 162-165
NewObjectTemplateCall(t, iso_ptr) ==
  /\ CanCall(t)
  /\ isolates[iso_ptr].live /\ Room(iso_ptr, "NewObjectTemplate")
  /\ Construct(t, iso_ptr, IsolateScopeGuards(t, iso_ptr))
  /\ Call(t, [IdleFrame EXCEPT !.op = "NewObjectTemplate", !.iso = iso_ptr],
          "NewObjectTemplate")
  /\ UNCHANGED <<input, initCalls, aborted, isolates, ctxs, vals, tmpls>>

\* NewObjectTemplate, lines 167-170
NewObjectTemplate(t) ==
  /\ pc[t] = "NewObjectTemplate" /\ ~aborted
  /\ LET ot == Min(FreeTmpls)
         e == frame[t].iso
     IN /\ tmpls' = [tmpls EXCEPT ![ot] = [FreeTmpl EXCEPT !.alloc = TRUE,
                                             !.iso = e, !.ref = TRUE]]
        /\ isolates' = ResetFromLocal(e)
        /\ Leave(t, ot)
  /\ UNCHANGED <<input, initCalls, aborted, locker, ctxs, vals, guards>>

\* void ObjectTemplateDispose(ObjectTemplatePtr ptr): delete, and the
\* destructor of the Persistent member does not reset it
ObjectTemplateDispose(t, ptr) ==
  /\ CanCall(t)
  /\ ptr # NullHandle => tmpls[ptr].alloc /\ ~TmplInUse(ptr)
  /\ IF ptr = NullHandle
     THEN UNCHANGED tmpls
     ELSE tmpls' = [tmpls EXCEPT ![ptr] = FreeTmpl]
  /\ UNCHANGED <<input, initCalls, aborted, isolates, locker, ctxs, vals, pc, frame, guards>>

\* LOCAL_OBJECT_TEMPLATE(ptr) of ObjectTemplateSetValue
ObjectTemplateSetValueCall(t, ptr, name, val_ptr) ==
  /\ CanCall(t)
  /\ tmpls[ptr].alloc /\ vals[val_ptr].alloc /\ vals[val_ptr].iso = tmpls[ptr].iso
  /\ Construct(t, tmpls[ptr].iso, IsolateScopeGuards(t, tmpls[ptr].iso))
  /\ Call(t, [IdleFrame EXCEPT !.op = "ObjectTemplateSetValue", !.tmpl = ptr,
                !.iso = tmpls[ptr].iso, !.val = val_ptr, !.arg = name],
          "ObjectTemplateSetValue")
  /\ UNCHANGED <<input, initCalls, aborted, isolates, ctxs, vals, tmpls>>

\* LOCAL_OBJECT_TEMPLATE(ptr) of ObjectTemplateSetObjectTemplate
ObjectTemplateSetObjectTemplateCall(t, ptr, name, obj_ptr) ==
  /\ CanCall(t)
  /\ tmpls[ptr].alloc /\ tmpls[obj_ptr].alloc /\ tmpls[obj_ptr].iso = tmpls[ptr].iso
  /\ Construct(t, tmpls[ptr].iso, IsolateScopeGuards(t, tmpls[ptr].iso))
  /\ Call(t, [IdleFrame EXCEPT !.op = "ObjectTemplateSetObjectTemplate",
                !.tmpl = ptr, !.iso = tmpls[ptr].iso, !.obj = obj_ptr,
                !.arg = name],
          "ObjectTemplateSetObjectTemplate")
  /\ UNCHANGED <<input, initCalls, aborted, isolates, ctxs, vals, tmpls>>

\* void ObjectTemplateSetValue(...), lines 183-186
ObjectTemplateSetValue(t) ==
  /\ pc[t] = "ObjectTemplateSetValue" /\ ~aborted
  /\ tmpls' = [tmpls EXCEPT ![frame[t].tmpl].props[frame[t].arg] = "value"]
  /\ Leave(t, <<>>)
  /\ UNCHANGED <<input, initCalls, aborted, isolates, locker, ctxs, vals, guards>>

\* void ObjectTemplateSetObjectTemplate(...), lines 192-195
ObjectTemplateSetObjectTemplate(t) ==
  /\ pc[t] = "ObjectTemplateSetObjectTemplate" /\ ~aborted
  /\ tmpls' = [tmpls EXCEPT ![frame[t].tmpl].props[frame[t].arg] = "template"]
  /\ Leave(t, <<>>)
  /\ UNCHANGED <<input, initCalls, aborted, isolates, locker, ctxs, vals, guards>>

\* ----------------------------------------------------------------- Context
\* ContextPtr NewContext(...), lines 202-205
NewContextCall(t, iso_ptr, global_template_ptr) ==
  /\ CanCall(t)
  /\ isolates[iso_ptr].live /\ Room(iso_ptr, "NewContext")
  /\ global_template_ptr # NullHandle =>
       tmpls[global_template_ptr].alloc /\ tmpls[global_template_ptr].iso = iso_ptr
  /\ Construct(t, iso_ptr, IsolateScopeGuards(t, iso_ptr))
  /\ Call(t, [IdleFrame EXCEPT !.op = "NewContext", !.iso = iso_ptr,
                !.tmpl = global_template_ptr],
          "NewContext")
  /\ UNCHANGED <<input, initCalls, aborted, isolates, ctxs, vals, tmpls>>

\* NewContext, lines 207-221
NewContext(t) ==
  /\ pc[t] = "NewContext" /\ ~aborted
  /\ LET ctx == Min(FreeCtxs)
         e == frame[t].iso
     IN /\ ctxs' = [ctxs EXCEPT ![ctx] = [alloc |-> TRUE, iso |-> e, ref |-> TRUE]]
        /\ isolates' = [ResetFromLocal(e) EXCEPT ![e].captureStack = TRUE]
        /\ Leave(t, ctx)
  /\ UNCHANGED <<input, initCalls, aborted, locker, vals, tmpls, guards>>

\* the host disposes a Context after the Values that record it
MayDisposeContext(ptr) ==
  /\ ctxs[ptr].alloc /\ ~CtxInUse(ptr)
  /\ \A v \in ValIds : vals[v].alloc => vals[v].ctx_ptr # ptr

\* void ContextDispose(ContextPtr ptr): no Locker; ctx->ptr.Reset() frees the
\* global handle, racing with whatever thread is inside the isolate
ContextDispose_NoNullCheck(t, ptr) ==
  /\ CanCall(t)
  /\ ptr # NullHandle => MayDisposeContext(ptr)
  /\ IF ptr = NullHandle
     THEN aborted' = TRUE /\ UNCHANGED <<ctxs, isolates>>
     ELSE \E survived \in (IF HeldByOther(t, ctxs[ptr].iso) THEN {TRUE, FALSE}
                           ELSE {TRUE}) :
            /\ aborted' = ~survived
            /\ ctxs' = [ctxs EXCEPT ![ptr] = FreeCtx]
            /\ isolates' = [isolates EXCEPT ![ctxs[ptr].iso].globals =
                              IF ctxs[ptr].ref THEN @ - 1 ELSE @]
  /\ UNCHANGED <<input, initCalls, locker, vals, tmpls, pc, frame, guards>>
ContextDispose(t, ptr) ==
  /\ CanCall(t)
  /\ ptr # NullHandle => MayDisposeContext(ptr)
  /\ IF ptr = NullHandle
     THEN UNCHANGED <<ctxs, isolates, aborted>>
     ELSE \E survived \in (IF HeldByOther(t, ctxs[ptr].iso) THEN {TRUE, FALSE}
                           ELSE {TRUE}) :
            /\ aborted' = ~survived
            /\ ctxs' = [ctxs EXCEPT ![ptr] = FreeCtx]
            /\ isolates' = [isolates EXCEPT ![ctxs[ptr].iso].globals =
                              IF ctxs[ptr].ref THEN @ - 1 ELSE @]
  /\ UNCHANGED <<input, initCalls, locker, vals, tmpls, pc, frame, guards>>

\* ------------------------------------------------------------------- Value
\* ISOLATE_SCOPE(iso_ptr) of NewValueInteger
NewValueIntegerCall(t, iso_ptr, v) ==
  /\ CanCall(t)
  /\ isolates[iso_ptr].live /\ Room(iso_ptr, "NewValueInteger")
  /\ Construct(t, iso_ptr, IsolateScopeGuards(t, iso_ptr))
  /\ Call(t, [IdleFrame EXCEPT !.op = "NewValueInteger", !.iso = iso_ptr, !.arg = v],
          "NewValueInteger")
  /\ UNCHANGED <<input, initCalls, aborted, isolates, ctxs, vals, tmpls>>

\* ISOLATE_SCOPE(iso_ptr) of NewValueString; the host's const char* points
\* to the bytes of v followed by the terminating NUL
NewValueStringCall(t, iso_ptr, v) ==
  /\ CanCall(t)
  /\ isolates[iso_ptr].live /\ Room(iso_ptr, "NewValueString")
  /\ Construct(t, iso_ptr, IsolateScopeGuards(t, iso_ptr))
  /\ Call(t, [IdleFrame EXCEPT !.op = "NewValueString", !.iso = iso_ptr,
                !.arg = Append(v, NUL)],
          "NewValueString")
  /\ UNCHANGED <<input, initCalls, aborted, isolates, ctxs, vals, tmpls>>

\* `new m_value` followed by val->iso = iso and val->ptr.Reset(...): ctx_ptr
\* is never assigned
NewHostValue(t, data) ==
  LET val == Min(FreeVals)
      e == frame[t].iso
  IN /\ vals' = [vals EXCEPT ![val] = [alloc |-> TRUE, iso |-> e,
                                        ctx_ptr |-> Uninit, data |-> data,
                                        ref |-> TRUE]]
     /\ isolates' = ResetFromTemporary(e)
     /\ Leave(t, val)
     /\ UNCHANGED <<input, initCalls, aborted, locker, ctxs, tmpls, guards>>

\* ValuePtr NewValueInteger(IsolatePtr iso_ptr, int32_t v), lines 288-291
NewValueInteger(t) ==
  /\ pc[t] = "NewValueInteger" /\ ~aborted
  /\ NewHostValue(t, [type |-> "int32", v |-> frame[t].arg])

\* ValuePtr NewValueString(IsolatePtr iso_ptr, const char* v), lines 304-307:
\* String::NewFromUtf8 reads v up to its terminating NUL
NewValueString(t) ==
  /\ pc[t] = "NewValueString" /\ ~aborted
  /\ NewHostValue(t, StringValue(CStr(frame[t].arg)))

\* void ValueDispose(ValuePtr ptr): delete, and the destructor of the
\* Persistent member does not reset it
ValueDispose(t, ptr) ==
  /\ CanCall(t)
  /\ ptr # NullHandle => vals[ptr].alloc /\ ~ValInUse(ptr)
  /\ IF ptr = NullHandle
     THEN UNCHANGED vals
     ELSE vals' = [vals EXCEPT ![ptr] = FreeVal]
  /\ UNCHANGED <<input, initCalls, aborted, isolates, locker, ctxs, tmpls, pc, frame, guards>>

\* LOCAL_VALUE(ptr), lines 277-282: ctx is whatever val->ctx_ptr holds
LocalValue(t, op, ptr) ==
  /\ CanCall(t)
  /\ vals[ptr].alloc
  /\ Construct(t, vals[ptr].iso, IsolateScopeGuards(t, vals[ptr].iso))
  /\ Call(t, [IdleFrame EXCEPT !.op = op, !.val = ptr, !.iso = vals[ptr].iso,
                !.ctx = vals[ptr].ctx_ptr],
          "LOCAL_VALUE")
  /\ UNCHANGED <<input, initCalls, aborted, isolates, ctxs, vals, tmpls>>

\* the m_ctx addresses at which ctx->ptr.Get(iso) finds a Context of iso
Enterable(e) == {c \in CtxIds : ctxs[c].alloc /\ ctxs[c].ref /\ ctxs[c].iso = e}

\* what dereferencing ctx can find: an unassigned pointer holds whatever the
\* allocator left there
PointedAt(ctx) == IF ctx = Uninit THEN {NullHandle} \cup CtxIds ELSE {ctx}

\* LOCAL_VALUE(ptr), lines 283-284: Context::Scope context_scope(ctx->ptr.Get(iso)).
\* The dereference faults unless it finds an m_ctx of this isolate.
LocalValueContext(t) ==
  /\ pc[t] = "LOCAL_VALUE" /\ ~aborted
  /\ \E ctx \in PointedAt(frame[t].ctx) :
       IF ctx \in Enterable(frame[t].iso)
       THEN /\ guards' = [guards EXCEPT ![t] =
                            Append(@, Guard("ContextScope", frame[t].iso, ctx, FALSE))]
            /\ pc' = [pc EXCEPT ![t] = frame[t].op]
            /\ UNCHANGED aborted
       ELSE /\ aborted' = TRUE
            /\ UNCHANGED <<guards, pc>>
  /\ UNCHANGED <<input, initCalls, isolates, locker, ctxs, vals, tmpls, frame>>

\* const char* ValueToString(ValuePtr ptr), lines 403-404
ValueToString(t) ==
  /\ pc[t] = "ValueToString" /\ ~aborted
  /\ Leave(t, CopyStringUtf8Value(Utf8Value(vals[frame[t].val].data)))
  /\ UNCHANGED <<input, initCalls, aborted, isolates, locker, ctxs, vals, tmpls, guards>>

\* int ValueIsUndefined(ValuePtr ptr), line 429
ValueIsUndefined(t) ==
  /\ pc[t] = "ValueIsUndefined" /\ ~aborted
  /\ Leave(t, IF vals[frame[t].val].data.type = "undefined" THEN 1 ELSE 0)
  /\ UNCHANGED <<input, initCalls, aborted, isolates, locker, ctxs, vals, tmpls, guards>>

\* ISOLATE_SCOPE(iso_ptr) of NewValueIntegerFromUnsigned
NewValueIntegerFromUnsignedCall(t, iso_ptr, v) ==
  /\ CanCall(t)
  /\ isolates[iso_ptr].live /\ Room(iso_ptr, "NewValueIntegerFromUnsigned")
  /\ Construct(t, iso_ptr, IsolateScopeGuards(t, iso_ptr))
  /\ Call(t, [IdleFrame EXCEPT !.op = "NewValueIntegerFromUnsigned", !.iso = iso_ptr,
                !.arg = v],
          "NewValueIntegerFromUnsigned")
  /\ UNCHANGED <<input, initCalls, aborted, isolates, ctxs, vals, tmpls>>

\* ValuePtr NewValueIntegerFromUnsigned(IsolatePtr iso_ptr, uint32_t v),
\* lines 296-299
NewValueIntegerFromUnsigned(t) ==
  /\ pc[t] = "NewValueIntegerFromUnsigned" /\ ~aborted
  /\ NewHostValue(t, IntegerNewFromUnsigned(frame[t].arg))

\* ISOLATE_SCOPE(iso_ptr) of NewValueBigIntFromWords; words points to
\* word_count words
NewValueBigIntFromWordsCall(t, iso_ptr, sign_bit, words) ==
  /\ CanCall(t)
  /\ isolates[iso_ptr].live /\ Room(iso_ptr, "NewValueBigIntFromWords")
  /\ Construct(t, iso_ptr, IsolateScopeGuards(t, iso_ptr))
  /\ Call(t, [IdleFrame EXCEPT !.op = "NewValueBigIntFromWords", !.iso = iso_ptr,
                !.arg = [sign_bit |-> sign_bit, word_count |-> Len(words),
                         words |-> words]],
          "NewValueBigIntFromWords")
  /\ UNCHANGED <<input, initCalls, aborted, isolates, ctxs, vals, tmpls>>

\* ValuePtr NewValueBigIntFromWords(...), lines 344-355: the Context made for
\* the engine call is a Local of the handle scope; no m_ctx is allocated for
\* it and val->ctx_ptr is not assigned
NewValueBigIntFromWords(t) ==
  /\ pc[t] = "NewValueBigIntFromWords" /\ ~aborted
  /\ NewHostValue(t, NewFromWords(frame[t].arg.sign_bit,
                                  SubSeq(frame[t].arg.words, 1,
                                         frame[t].arg.word_count)))

\* int32_t ValueToInt32(ValuePtr ptr), line 381: ToChecked() is fatal when
\* the engine has no answer
ValueToInt32(t) ==
  /\ pc[t] = "ValueToInt32" /\ ~aborted
  /\ LET r == Int32Value(vals[frame[t].val].data)
     IN IF r = Nothing
        THEN aborted' = TRUE /\ UNCHANGED <<pc, frame>>
        ELSE Leave(t, r[1]) /\ UNCHANGED aborted
  /\ UNCHANGED <<input, initCalls, isolates, locker, ctxs, vals, tmpls, guards>>

\* uint32_t ValueToUint32(ValuePtr ptr), line 409
ValueToUint32(t) ==
  /\ pc[t] = "ValueToUint32" /\ ~aborted
  /\ LET r == Uint32Value(vals[frame[t].val].data)
     IN IF r = Nothing
        THEN aborted' = TRUE /\ UNCHANGED <<pc, frame>>
        ELSE Leave(t, r[1]) /\ UNCHANGED aborted
  /\ UNCHANGED <<input, initCalls, isolates, locker, ctxs, vals, tmpls, guards>>

\* ValueBigInt ValueToBigInt(ValuePtr ptr), lines 414-424: an empty result
\* of ToBigInt is returned as {nullptr, 0}; otherwise ToWordsArray fills in
\* the sign, the count and the words
ValueToBigInt(t) ==
  /\ pc[t] = "ValueToBigInt" /\ ~aborted
  /\ LET bint == ToBigInt(vals[frame[t].val].data)
     IN IF bint = Nothing
        THEN Leave(t, [words |-> nullptr, word_count |-> 0, sign_bit |-> 0])
        ELSE Leave(t, [words |-> Ptr(bint[1].words),
                       word_count |-> Len(bint[1].words),
                       sign_bit |-> bint[1].sign])
  /\ UNCHANGED <<input, initCalls, aborted, isolates, locker, ctxs, vals, tmpls, guards>>

\* ---------------------------------------------------------- ExceptionError
\* try_catch.Message(): resource name, line and start column where known
Message(origin, line, start) == [origin |-> origin, line |-> line, start |-> start]

\* lines 68-80: sb << *origin, ":" << line, ":" << start + 1
Location_ZeroDefault(m) ==
  CStr(m.origin)
    \o <<":">> \o ToDecimal(IF m.line # Nothing THEN m.line[1] ELSE 0)
    \o <<":">> \o ToDecimal(IF m.start # Nothing THEN m.start[1] + 1 ELSE 0)
Location(m) ==
  CStr(m.origin)
    \o (IF m.line # Nothing THEN <<":">> \o ToDecimal(m.line[1]) ELSE <<>>)
    \o (IF m.start # Nothing THEN <<":">> \o ToDecimal(m.start[1] + 1) ELSE <<>>)

\* RtnError ExceptionError(TryCatch& try_catch, Isolate* iso, Local<Context> ctx),
\* lines 55-89; tc is what try_catch answers
ExceptionError_NoTerminatedCheck(tc) ==
  [msg |-> CopyStringUtf8Value(Utf8Value(tc.exception)),
   location |-> IF tc.message # Nothing
                THEN CopyString(Location(tc.message[1])) ELSE nullptr,
   stack |-> IF tc.stack # Nothing
             THEN CopyStringUtf8Value(Utf8Value(tc.stack[1])) ELSE nullptr]
ExceptionError(tc) ==
  IF tc.hasTerminated
  THEN [NoError EXCEPT !.msg = CopyString(CStr(ExecutionTerminatedMsg))]
  ELSE [msg |-> CopyStringUtf8Value(Utf8Value(tc.exception)),
        location |-> IF tc.message # Nothing
                     THEN CopyString(Location(tc.message[1])) ELSE nullptr,
        stack |-> IF tc.stack # Nothing
                  THEN CopyStringUtf8Value(Utf8Value(tc.stack[1])) ELSE nullptr]

\* the TryCatch after a failure of the script
Caught(script, origin, terminated) ==
  IF terminated
  THEN [hasCaught |-> TRUE, hasTerminated |-> TRUE, exception |-> Undefined,
        message |-> Nothing, stack |-> Nothing]
  ELSE [hasCaught |-> TRUE, hasTerminated |-> FALSE, exception |-> script.exception,
        message |-> IF script.message = Nothing THEN Nothing
                    ELSE Just(Message(origin, script.message[1].line,
                                      script.message[1].start)),
        stack |-> script.stack]

\* --------------------------------------------------------------- RunScript
\* lines 227-233: Locker, Isolate::Scope, HandleScope, TryCatch, Context::Scope
RunScriptGuards(t, e, ctx) ==
  IsolateScopeGuards(t, e) \o <<Guard("TryCatch", e, NullHandle, FALSE),
                                Guard("ContextScope", e, ctx, FALSE)>>

\* RtnValue RunScript(ContextPtr ctx_ptr, const char* source, const char* origin),
\* lines 225-240
RunScriptCall(t, ctx_ptr, source, origin) ==
  /\ CanCall(t)
  /\ ctxs[ctx_ptr].alloc /\ Room(ctxs[ctx_ptr].iso, "RunScript")
  /\ Construct(t, ctxs[ctx_ptr].iso, RunScriptGuards(t, ctxs[ctx_ptr].iso, ctx_ptr))
  /\ Call(t, [IdleFrame EXCEPT !.op = "RunScript", !.ctx = ctx_ptr,
                !.iso = ctxs[ctx_ptr].iso, !.arg = source, !.origin = origin,
                !.rtn = [value |-> NullHandle, error |-> NoError]],
          "Compile")
  /\ UNCHANGED <<input, initCalls, aborted, isolates, ctxs, vals, tmpls>>

\* lines 242-247: Script::Compile
RunScriptCompile_IgnoresFailure(t) ==
  /\ pc[t] = "Compile" /\ ~aborted
  /\ pc' = [pc EXCEPT ![t] = "Run"]
  /\ UNCHANGED <<input, initCalls, aborted, isolates, locker, ctxs, vals, tmpls, frame,
                 guards>>
RunScriptCompile(t) ==
  /\ pc[t] = "Compile" /\ ~aborted
  /\ IF frame[t].arg.run = "syntax_error"
     THEN /\ pc' = [pc EXCEPT ![t] = "ExceptionError"]
          /\ frame' = [frame EXCEPT ![t].tc = Caught(frame[t].arg, frame[t].origin, FALSE)]
     ELSE /\ pc' = [pc EXCEPT ![t] = "Run"]
          /\ UNCHANGED frame
  /\ UNCHANGED <<input, initCalls, aborted, isolates, locker, ctxs, vals, tmpls, guards>>

\* line 248, script->Run(local_ctx): the script reaches a safe point with a
\* termination request pending and is terminated
RunScriptTerminated(t) ==
  /\ pc[t] = "Run" /\ ~aborted
  /\ isolates[frame[t].iso].terminating
  /\ isolates' = [isolates EXCEPT ![frame[t].iso].terminating = FALSE]
  /\ pc' = [pc EXCEPT ![t] = "ExceptionError"]
  /\ frame' = [frame EXCEPT ![t].tc = Caught(frame[t].arg, frame[t].origin, TRUE)]
  /\ UNCHANGED <<input, initCalls, aborted, locker, ctxs, vals, tmpls, guards>>

\* line 248: the script throws
RunScriptThrows(t) ==
  /\ pc[t] = "Run" /\ ~aborted
  /\ frame[t].arg.run = "throw"
  /\ pc' = [pc EXCEPT ![t] = "ExceptionError"]
  /\ frame' = [frame EXCEPT ![t].tc = Caught(frame[t].arg, frame[t].origin, FALSE)]
  /\ UNCHANGED <<input, initCalls, aborted, isolates, locker, ctxs, vals, tmpls, guards>>

\* lines 248-259: the script runs to a value, wrapped in a new m_value
RunScriptValue(t) ==
  /\ pc[t] = "Run" /\ ~aborted
  /\ frame[t].arg.run = "value"
  /\ LET val == Min(FreeVals)
         e == frame[t].iso
     IN /\ vals' = [vals EXCEPT ![val] = [alloc |-> TRUE, iso |-> e,
                                           ctx_ptr |-> frame[t].ctx,
                                           data |-> frame[t].arg.result,
                                           ref |-> TRUE]]
        /\ isolates' = ResetFromTemporary(e)
        /\ Leave(t, [frame[t].rtn EXCEPT !.value = val])
  /\ UNCHANGED <<input, initCalls, aborted, locker, ctxs, tmpls, guards>>

\* rtn.error = ExceptionError(try_catch, iso, local_ctx), lines 245 and 250:
\* ExceptionError takes a nested Locker, Isolate::Scope and HandleScope
\* (lines 51-53) and builds the record (lines 55-89)
ExceptionErrorCall(t) ==
  /\ pc[t] = "ExceptionError" /\ ~aborted
  /\ Construct(t, frame[t].iso, IsolateScopeGuards(t, frame[t].iso))
  /\ pc' = [pc EXCEPT ![t] = "ExceptionError_return"]
  /\ frame' = [frame EXCEPT ![t].rtn.error = ExceptionError(frame[t].tc)]
  /\ UNCHANGED <<input, initCalls, aborted, isolates, ctxs, vals, tmpls>>

\* ExceptionError returns (lines 60, 89): its three scoped objects are
\* destroyed, then RunScript returns rtn (lines 246, 251)
ExceptionErrorReturn(t) ==
  /\ pc[t] = "ExceptionError_return" /\ ~aborted
  /\ Destroy(t)
  /\ pc' = [pc EXCEPT ![t] =
              IF Len(guards[t]) - 1 = Len(RunScriptGuards(t, frame[t].iso, frame[t].ctx))
              THEN "Exit" ELSE @]
  /\ UNCHANGED <<input, initCalls, aborted, isolates, ctxs, vals, tmpls, frame>>

\* ------------------------------------------------------------ specification
HostInts == {1}

\* source texts by what the engine makes of them: "1+1", "while(true){}",
\* "function (" and "throw ''"
CoreScripts ==
  {Script("value", Undefined, Nothing, Nothing, [type |-> "int32", v |-> 2]),
   Script("loop", Undefined, Nothing, Nothing, Undefined),
   Script("syntax_error", StringValue(<<"a">>),
          Just([line |-> Just(1), start |-> Just(0)]), Just(StringValue(<<"a">>)),
          Undefined),
   Script("throw", StringValue(<<>>),
          Just([line |-> Just(1), start |-> Just(0)]), Nothing, Undefined)}
CoreOrigins == {<<"a">>}

\* the host works with one Environment at a time
NewIsolateAlone(t) ==
  /\ \A e \in IsoIds : ~isolates[e].live
  /\ NewIsolate(t)

Next ==
  \E t \in Threads :
    \/ InitCall(t)
    \/ NewIsolateAlone(t)
    \/ \E ptr \in {NullHandle} \cup IsoIds : IsolateDispose(t, ptr)
    \/ \E ptr \in IsoIds : IsolateTerminateExecution(t, ptr)
    \/ \E ptr \in {NullHandle} \cup IsoIds : IsolationGetHeapStatistics(t, ptr)
    \/ \E e \in IsoIds : NewObjectTemplateCall(t, e)
    \/ NewObjectTemplate(t)
    \/ \E ptr \in {NullHandle} \cup TmplIds : ObjectTemplateDispose(t, ptr)
    \/ \E ptr \in TmplIds, n \in PropNames, v \in ValIds :
         ObjectTemplateSetValueCall(t, ptr, n, v)
    \/ ObjectTemplateSetValue(t)
    \/ \E ptr \in TmplIds, n \in PropNames, obj \in TmplIds :
         ObjectTemplateSetObjectTemplateCall(t, ptr, n, obj)
    \/ ObjectTemplateSetObjectTemplate(t)
    \/ \E e \in IsoIds, m \in {NullHandle} \cup TmplIds : NewContextCall(t, e, m)
    \/ NewContext(t)
    \/ \E ptr \in {NullHandle} \cup CtxIds : ContextDispose(t, ptr)
    \/ \E e \in IsoIds, v \in HostInts : NewValueIntegerCall(t, e, v)
    \/ NewValueInteger(t)
    \/ \E ptr \in {NullHandle} \cup ValIds : ValueDispose(t, ptr)
    \/ \E ptr \in ValIds : LocalValue(t, "ValueToString", ptr)
    \/ \E ptr \in ValIds : LocalValue(t, "ValueIsUndefined", ptr)
    \/ LocalValueContext(t)
    \/ ValueToString(t)
    \/ ValueIsUndefined(t)
    \/ \E ctx \in CtxIds, src \in CoreScripts, origin \in CoreOrigins :
         RunScriptCall(t, ctx, src, origin)
    \/ RunScriptCompile(t)
    \/ RunScriptTerminated(t)
    \/ RunScriptThrows(t)
    \/ RunScriptValue(t)
    \/ ExceptionErrorCall(t)
    \/ ExceptionErrorReturn(t)
    \/ Exit(t)

Spec == Init /\ [][Next]_vars

\* the state after the host's one call of Init()
InitOnce ==
  /\ input = NoInput
  /\ initCalls = 1
  /\ Fresh

\* ---- a host that builds strings and reads them back
HostStrings == StringsUpTo(MaxStrLen)

StrInit ==
  /\ input \in {[NoInput EXCEPT !.s = x] : x \in HostStrings}
  /\ initCalls = 1
  /\ Fresh

StrNext ==
  \E t \in Threads :
    \/ NewIsolateAlone(t)
    \/ \E e \in IsoIds : NewContextCall(t, e, NullHandle)
    \/ NewContext(t)
    \/ \E e \in IsoIds : NewValueStringCall(t, e, input.s)
    \/ NewValueString(t)
    \/ \E ptr \in ValIds : ValueDispose(t, ptr)
    \/ \E ptr \in ValIds : LocalValue(t, "ValueToString", ptr)
    \/ LocalValueContext(t)
    \/ ValueToString(t)
    \/ Exit(t)

StrSpec == StrInit /\ [][StrNext]_vars

\* ---- a host that runs scripts and cancels them, and keeps to the calls
\* ---- that cannot fault
Step(t) ==
  \/ NewContext(t)
  \/ RunScriptCompile(t)
  \/ RunScriptTerminated(t)
  \/ RunScriptThrows(t)
  \/ RunScriptValue(t)
  \/ ExceptionErrorCall(t)
  \/ ExceptionErrorReturn(t)
  \/ Exit(t)

LiveNext ==
  \E t \in Threads :
    \/ NewIsolateAlone(t)
    \/ \E ptr \in IsoIds : IsolateTerminateExecution(t, ptr)
    \/ \E e \in IsoIds : NewContextCall(t, e, NullHandle)
    \/ \E ptr \in ValIds : ValueDispose(t, ptr)
    \/ \E ctx \in CtxIds, src \in CoreScripts, origin \in CoreOrigins :
         RunScriptCall(t, ctx, src, origin)
    \/ Step(t)

\* a thread that is inside a call keeps executing it, and running script
\* reaches a safe point again and again
LiveSpec ==
  InitOnce /\ [][LiveNext]_vars /\ \A t \in Threads : WF_vars(Step(t))

\* ---- a host that runs one script under one origin label and converts
\* ---- what it gets back
ThrownValues == {StringValue(<<>>), StringValue(<<"a">>), StringValue(<<NUL, "a">>)}
Diagnostics ==
  {Nothing} \cup {Just([line |-> l, start |-> c]) :
                    l \in {Nothing, Just(12)}, c \in {Nothing, Just(0), Just(9)}}
StackTraces == {Nothing, Just(StringValue(<<>>)), Just(StringValue(<<"a">>))}

DrawnScripts ==
  {Script("value", Undefined, Nothing, Nothing, r) :
     r \in {IntegerNew(2), SymbolValue, BigIntValue(0, <<<<0, 0, 0, 1>>>>)}}
  \cup {Script("loop", Undefined, Nothing, Nothing, Undefined)}
  \cup {Script(run, x, m, st, Undefined) :
          run \in {"syntax_error", "throw"}, x \in ThrownValues,
          m \in Diagnostics, st \in StackTraces}
DrawnOrigins == {<<>>, <<"a">>}

ScriptInit ==
  /\ input \in {[NoInput EXCEPT !.script = x, !.origin = o] :
                  x \in DrawnScripts, o \in DrawnOrigins}
  /\ initCalls = 1
  /\ Fresh

ScriptNext ==
  \E t \in Threads :
    \/ NewIsolateAlone(t)
    \/ \E ptr \in IsoIds : IsolateTerminateExecution(t, ptr)
    \/ \E e \in IsoIds : NewContextCall(t, e, NullHandle)
    \/ NewContext(t)
    \/ \E ctx \in CtxIds : RunScriptCall(t, ctx, input.script, input.origin)
    \/ RunScriptCompile(t)
    \/ RunScriptTerminated(t)
    \/ RunScriptThrows(t)
    \/ RunScriptValue(t)
    \/ ExceptionErrorCall(t)
    \/ ExceptionErrorReturn(t)
    \/ \E ptr \in ValIds : LocalValue(t, "ValueToInt32", ptr)
    \/ \E ptr \in ValIds : LocalValue(t, "ValueToBigInt", ptr)
    \/ LocalValueContext(t)
    \/ ValueToInt32(t)
    \/ ValueToBigInt(t)
    \/ \E ptr \in ValIds : ValueDispose(t, ptr)
    \/ Exit(t)

ScriptSpec == ScriptInit /\ [][ScriptNext]_vars

\* ---- a host that builds a number and converts it back
HostInt32s == {Int32Min, 0 - 1, 0, 1, Int32Max}
HostUint32s == {<<0, 0>>, <<0, 1>>, <<Half \div 2 - 1, Half - 1>>, <<Half \div 2, 0>>,
                <<Half - 1, Half - 1>>}
HostWords == {ZeroWord, <<0, 0, 0, 1>>, <<Half - 1, Half - 1, Half - 1, Half - 1>>}

RECURSIVE WordsOfLen(_)
WordsOfLen(n) ==
  IF n = 0 THEN {<<>>}
  ELSE {Append(ws, w) : ws \in WordsOfLen(n - 1), w \in HostWords}

HostWordSeqs == UNION {WordsOfLen(n) : n \in 0..MaxWords}

NumInit ==
  /\ input \in
       {[NoInput EXCEPT !.ctor = "NewValueInteger", !.n = n] : n \in HostInt32s}
       \cup {[NoInput EXCEPT !.ctor = "NewValueIntegerFromUnsigned", !.u = u] :
               u \in HostUint32s}
       \cup {[NoInput EXCEPT !.ctor = "NewValueBigIntFromWords", !.sign_bit = sb,
                             !.words = ws] : sb \in {0, 1}, ws \in HostWordSeqs}
  /\ initCalls = 1
  /\ Fresh

\* the host converts with the operation that matches its constructor
ConversionOf(ctor) ==
  CASE ctor = "NewValueInteger" -> "ValueToInt32"
    [] ctor = "NewValueIntegerFromUnsigned" -> "ValueToUint32"
    [] ctor = "NewValueBigIntFromWords" -> "ValueToBigInt"

NumNext ==
  \E t \in Threads :
    \/ NewIsolateAlone(t)
    \/ \E e \in IsoIds : NewContextCall(t, e, NullHandle)
    \/ NewContext(t)
    \/ \E e \in IsoIds : /\ input.ctor = "NewValueInteger"
                         /\ NewValueIntegerCall(t, e, input.n)
    \/ NewValueInteger(t)
    \/ \E e \in IsoIds : /\ input.ctor = "NewValueIntegerFromUnsigned"
                         /\ NewValueIntegerFromUnsignedCall(t, e, input.u)
    \/ NewValueIntegerFromUnsigned(t)
    \/ \E e \in IsoIds : /\ input.ctor = "NewValueBigIntFromWords"
                         /\ NewValueBigIntFromWordsCall(t, e, input.sign_bit, input.words)
    \/ NewValueBigIntFromWords(t)
    \/ \E ptr \in ValIds : LocalValue(t, ConversionOf(input.ctor), ptr)
    \/ LocalValueContext(t)
    \/ ValueToInt32(t)
    \/ ValueToUint32(t)
    \/ ValueToBigInt(t)
    \/ \E ptr \in ValIds : ValueDispose(t, ptr)
    \/ Exit(t)

NumSpec == NumInit /\ [][NumNext]_vars

\* ---- a host that works with several Environments at once
TwoNext ==
  \E t \in Threads :
    \/ NewIsolate(t)
    \/ \E e \in IsoIds : NewContextCall(t, e, NullHandle)
    \/ NewContext(t)
    \/ \E e \in IsoIds, v \in HostInts : NewValueIntegerCall(t, e, v)
    \/ NewValueInteger(t)
    \/ Exit(t)

TwoSpec == InitOnce /\ [][TwoNext]_vars

\* ------------------------------------------------------------------ claims
\* C1: whatever way RunScript ends (compile failure, a throw of any value,
\* termination, success), exactly one of the returned pair is non-null:
\* the value handle, or the message of the error record.
C1_ExactlyOneOfPair ==
  \A t \in Threads :
    pc[t] = "Exit" /\ frame[t].op = "RunScript" =>
      (frame[t].rtn.value # NullHandle) # (frame[t].rtn.error.msg # nullptr)

\* C2: an inspection or conversion of a Value that has not been disposed
\* enters only a Context that is live, or none; the Context reference it
\* is about to dereference is never unset or disposed.
C2_EntersLiveContextOnly ==
  \A t \in Threads :
    pc[t] = "LOCAL_VALUE" =>
      /\ frame[t].ctx # Uninit
      /\ frame[t].ctx # NullHandle => frame[t].ctx \in Enterable(frame[t].iso)

\* C3: for every string s, the empty one included,
\* ValueToString(NewValueString(env, s)) returns a string equal to s.
C3_StringRoundTrip ==
  \A t \in Threads :
    pc[t] = "Exit" /\ frame[t].op = "ValueToString" =>
      frame[t].rtn = Ptr(input.s)

\* C4: while a thread is inside an Environment's scope, no other thread is
\* inside the scope of the same Environment.
C4_MutualExclusion ==
  \A e \in IsoIds : \A t1, t2 \in Threads :
    e \in Entered(t1) /\ e \in Entered(t2) => t1 = t2

\* one thread is inside, and only the lock keeps the other one's
\* NewValueInteger from starting
C4_Witness ==
  \E e \in IsoIds : \E t1, t2 \in Threads :
    /\ t1 # t2 /\ e \in Entered(t1)
    /\ CanCall(t2) /\ isolates[e].live /\ Room(e, "NewValueInteger")
    /\ ~LockerFree(t2, e)

\* C5: the disposers and the heap statistics never reset a persistent
\* reference, destroy the heap or read its counters while another thread
\* holds the lock of that Environment.
C5_NoEngineAccessUnderForeignLock ==
  /\ [](\A t \in Threads : \A e \in IsoIds :
          HeldByOther(t, e) => ~ENABLED IsolationGetHeapStatistics(t, e))
  /\ [][\A e \in IsoIds :
          (\/ isolates'[e].globals < isolates[e].globals
           \/ isolates[e].live /\ ~isolates'[e].live)
          => ~\E u \in Threads : /\ locker[e] = u
                                 /\ pc'[u] = pc[u]
                                 /\ guards'[u] = guards[u]]_vars

\* C6 as stated: a RunScript that was terminated returns the message
\* "execution terminated", with no location and no stack.
C6_SentinelAsStated ==
  \A t \in Threads :
    pc[t] = "Exit" /\ frame[t].op = "RunScript" /\ frame[t].tc.hasTerminated =>
      /\ frame[t].rtn.error.msg =
           Ptr(<<"e","x","e","c","u","t","i","o","n"," ",
                 "t","e","r","m","i","n","a","t","e","d">>)
      /\ frame[t].rtn.error.location = nullptr
      /\ frame[t].rtn.error.stack = nullptr

\* C6: a RunScript that was terminated returns the message
\* "ExecutionTerminated: script execution has been terminated", with no
\* location and no stack.
C6_TerminatedSentinel ==
  \A t \in Threads :
    pc[t] = "Exit" /\ frame[t].op = "RunScript" /\ frame[t].tc.hasTerminated =>
      /\ frame[t].rtn.error.msg = Ptr(ExecutionTerminatedMsg)
      /\ frame[t].rtn.error.location = nullptr
      /\ frame[t].rtn.error.stack = nullptr

C6_Witness ==
  \E t \in Threads :
    /\ pc[t] = "Exit" /\ frame[t].op = "RunScript"
    /\ frame[t].arg.run = "loop" /\ frame[t].tc.hasTerminated

\* C7: when TerminateExecution is called while another thread's RunScript
\* is in a script that never finishes on its own, that RunScript eventually
\* returns no value and the terminated error, and gives the lock back;
\* TerminateExecution is never kept waiting by the lock.
C7_TerminatedRunScriptReturns ==
  /\ \A t \in Threads : \A e \in IsoIds :
       (/\ pc[t] = "Run" /\ frame[t].arg.run = "loop"
        /\ frame[t].iso = e /\ isolates[e].terminating)
       ~> (/\ pc[t] = "Exit" /\ frame[t].op = "RunScript"
           /\ frame[t].rtn.value = NullHandle
           /\ frame[t].rtn.error = [NoError EXCEPT !.msg = Ptr(ExecutionTerminatedMsg)])
  /\ \A t \in Threads : \A e \in IsoIds :
       (/\ pc[t] = "Run" /\ frame[t].arg.run = "loop"
        /\ frame[t].iso = e /\ isolates[e].terminating)
       ~> (pc[t] = "idle" /\ locker[e] # t)
  /\ [](\A t \in Threads : \A e \in IsoIds :
          CanCall(t) /\ isolates[e].live => ENABLED IsolateTerminateExecution(t, e))

\* the request has arrived while the other thread's script is in its loop
C7_Witness ==
  \E t, u \in Threads :
    /\ t # u /\ pc[u] = "idle"
    /\ pc[t] = "Run" /\ frame[t].arg.run = "loop"
    /\ isolates[frame[t].iso].terminating /\ locker[frame[t].iso] = t

\* C8: the scoped objects of an operation are taken in the order lock,
\* isolate scope, handle scope, context scope (ExceptionError nesting the
\* first three once more), are released in exactly the reverse order on
\* every way out, and a thread back in the host holds none of them.
C8_ScopedAcquisition ==
  /\ [](\A t \in Threads :
          /\ \/ \E n \in 0..4 :
                  Kinds(guards[t]) =
                    SubSeq(<<"Locker", "IsolateScope", "HandleScope", "ContextScope">>,
                           1, n)
             \/ \E n \in 4..8 :
                  Kinds(guards[t]) =
                    SubSeq(<<"Locker", "IsolateScope", "HandleScope", "TryCatch",
                             "ContextScope", "Locker", "IsolateScope", "HandleScope">>,
                           1, n)
          /\ \A e \in IsoIds :
               locker[e] = t <=> \E i \in 1..Len(guards[t]) :
                                   /\ guards[t][i].kind = "Locker"
                                   /\ guards[t][i].has_lock /\ guards[t][i].iso = e
          /\ pc[t] = "idle" => guards[t] = <<>>)
  /\ [][\A t \in Threads :
          Len(guards'[t]) < Len(guards[t]) =>
            guards'[t] = SubSeq(guards[t], 1, Len(guards[t]) - 1)]_vars

\* RunScript is on its way out with an error and has only the lock left
C8_Witness ==
  \E t \in Threads :
    /\ pc[t] = "Exit" /\ frame[t].op = "RunScript"
    /\ frame[t].rtn.value = NullHandle
    /\ Kinds(guards[t]) = <<"Locker">>

\* C9: at every state the number of persistent references of an
\* Environment equals the number of its handles that were created and not
\* yet disposed.
C9_PersistentsMatchHandles ==
  \A e \in IsoIds :
    isolates[e].live =>
      isolates[e].globals =
        Cardinality({c \in CtxIds : ctxs[c].alloc /\ ctxs[c].iso = e})
        + Cardinality({v \in ValIds : vals[v].alloc /\ vals[v].iso = e})
        + Cardinality({m \in TmplIds : tmpls[m].alloc /\ tmpls[m].iso = e})

\* C10: over any sequence of Init and NewIsolate calls the platform is
\* initialised exactly once, and before the first Environment exists.
C10_InitialisedOnce ==
  /\ initCalls <= 1
  /\ (\E e \in IsoIds : isolates[e].live) => initCalls = 1

\* C11: a scalar conversion that the engine cannot perform is fatal; a
\* conversion that returns to the host, ValueToBigInt included, is one the
\* engine could perform.
C11_FailedConversionIsFatal ==
  \A t \in Threads :
    pc[t] = "Exit" =>
      /\ frame[t].op = "ValueToInt32" =>
           Int32Value(vals[frame[t].val].data) # Nothing
      /\ frame[t].op = "ValueToBigInt" =>
           ToBigInt(vals[frame[t].val].data) # Nothing

\* C12: in every error record RunScript hands back, each of message,
\* location and stack is either absent or a non-empty string.
C12_NoEmptyButPresentField ==
  \A t \in Threads :
    pc[t] = "Exit" /\ frame[t].op = "RunScript" =>
      /\ frame[t].rtn.error.msg # Ptr(<<>>)
      /\ frame[t].rtn.error.location # Ptr(<<>>)
      /\ frame[t].rtn.error.stack # Ptr(<<>>)

\* C13: each of the four disposal operations, called with a null handle,
\* changes nothing, whatever else exists and whoever is inside an
\* Environment, and can be called again and again.
C13_NullDisposeIsNoOp ==
  /\ [](\A t \in Threads :
          CanCall(t) => /\ ENABLED IsolateDispose(t, NullHandle)
                        /\ ENABLED ContextDispose(t, NullHandle)
                        /\ ENABLED ObjectTemplateDispose(t, NullHandle)
                        /\ ENABLED ValueDispose(t, NullHandle))
  /\ [][\A t \in Threads :
          (\/ IsolateDispose(t, NullHandle)
           \/ ContextDispose(t, NullHandle)
           \/ ObjectTemplateDispose(t, NullHandle)
           \/ ValueDispose(t, NullHandle)) => UNCHANGED vars]_vars

\* a null handle can be disposed while a Context exists and another thread
\* is inside its Environment
C13_Witness ==
  \E t, u \in Threads :
    /\ t # u /\ CanCall(t) /\ Busy(u)
    /\ \E c \in CtxIds : ctxs[c].alloc /\ locker[ctxs[c].iso] = u
    /\ ENABLED ContextDispose(t, NullHandle)

\* C14: ValueToInt32(NewValueInteger(env, n)) is n for every int32 n, and
\* ValueToUint32(NewValueIntegerFromUnsigned(env, u)) is u for every uint32
\* u: the conversion of the number the host has built does not fault, and
\* what it returns is the number the host passed in.
C14_IntegerRoundTrip ==
  /\ ~aborted
  /\ \A t \in Threads :
       pc[t] = "Exit" =>
         /\ frame[t].op = "ValueToInt32" => frame[t].rtn = input.n
         /\ frame[t].op = "ValueToUint32" => frame[t].rtn = input.u

\* C15: ValueToBigInt(NewValueBigIntFromWords(env, sign, words)) gives back
\* the sign, the count and the words, for every sign and every word
\* sequence without a zero word at its most significant end; the Context
\* the constructor makes is not recorded in the handle and no Context
\* handle of the host changes.
C15_BigIntWordsRoundTrip ==
  /\ [](~aborted)
  /\ [](\A t \in Threads :
          (/\ pc[t] = "Exit" /\ frame[t].op = "ValueToBigInt"
           /\ (input.words = <<>> \/ input.words[Len(input.words)] # ZeroWord))
          => frame[t].rtn = [words |-> Ptr(input.words),
                             word_count |-> Len(input.words),
                             sign_bit |-> input.sign_bit])
  /\ [][\A t \in Threads :
          pc[t] = "NewValueBigIntFromWords" /\ pc'[t] = "Exit" =>
            /\ ctxs' = ctxs
            /\ vals'[frame'[t].rtn].ctx_ptr \notin CtxIds]_vars

\* C16: a call into an Environment whose lock is free starts, whatever
\* locks and scopes calls into other Environments hold; calls into two
\* different Environments are in progress at the same time.
C16_EnvironmentsDoNotBlockEachOther ==
  \A t \in Threads : \A e \in IsoIds :
    CanCall(t) /\ isolates[e].live /\ locker[e] = NoThread =>
      /\ Room(e, "NewValueInteger") => ENABLED NewValueIntegerCall(t, e, 1)
      /\ Room(e, "NewContext") => ENABLED NewContextCall(t, e, NullHandle)

\* two threads are inside two different Environments, each holding the
\* lock of its own
C16_Witness ==
  \E t1, t2 \in Threads : \E e1, e2 \in IsoIds :
    /\ t1 # t2 /\ e1 # e2
    /\ e1 \in Entered(t1) /\ locker[e1] = t1
    /\ e2 \in Entered(t2) /\ locker[e2] = t2

\* C17: in RunScript the run step comes only after a compile step that
\* succeeded; a failed compilation leads to the error record and to a
\* return without a Value; the compiled unit is run once; a Value is
\* allocated only by the step that ends a successful run, and it records
\* the Context passed to RunScript and that Context's Environment.
C17_CompileRunOrder ==
  /\ [](\A t \in Threads :
          pc[t] = "Exit" /\ frame[t].op = "RunScript"
            /\ frame[t].arg.run = "syntax_error" =>
              /\ frame[t].rtn.value = NullHandle
              /\ frame[t].rtn.error.msg # nullptr)
  /\ [][\A t \in Threads :
          /\ pc'[t] = "Run" /\ pc[t] # "Run" =>
               pc[t] = "Compile" /\ frame[t].arg.run # "syntax_error"
          /\ pc[t] = "Compile" /\ pc'[t] # "Compile"
               /\ frame[t].arg.run = "syntax_error" =>
               pc'[t] = "ExceptionError"
          /\ pc[t] = "Run" /\ pc'[t] # "Run" => pc'[t] \in {"ExceptionError", "Exit"}
          /\ pc[t] \in {"ExceptionError", "ExceptionError_return"} =>
               pc'[t] \in {"ExceptionError", "ExceptionError_return", "Exit"}
          /\ \A v \in ValIds :
               (/\ frame[t].op = "RunScript" /\ pc'[t] # pc[t]
                /\ ~vals[v].alloc /\ vals'[v].alloc) =>
                 /\ pc[t] = "Run" /\ pc'[t] = "Exit"
                 /\ frame[t].arg.run = "value"
                 /\ frame'[t].rtn.value = v
                 /\ vals'[v].ctx_ptr = frame[t].ctx
                 /\ vals'[v].iso = ctxs[frame[t].ctx].iso]_vars

\* a script has compiled, run and left a Value that records its Context
C17_Witness ==
  \E t \in Threads :
    /\ pc[t] = "Exit" /\ frame[t].op = "RunScript"
    /\ frame[t].rtn.value # NullHandle
    /\ vals[frame[t].rtn.value].alloc
    /\ vals[frame[t].rtn.value].ctx_ptr = frame[t].ctx

\* C18: when the engine attached a message to the exception, the location
\* is the origin label, then ":" and the line if there is one, then ":" and
\* the column counted from 1 if there is one, a missing piece adding
\* nothing; with no message attached, there is no location.
C18_LocationFormat ==
  \A t \in Threads :
    (/\ pc[t] = "Exit" /\ frame[t].op = "RunScript"
     /\ frame[t].tc.hasCaught /\ ~frame[t].tc.hasTerminated) =>
      LET msg == frame[t].arg.message
          line == msg[1].line
          start == msg[1].start
      IN IF msg = Nothing
         THEN frame[t].rtn.error.location = nullptr
         ELSE frame[t].rtn.error.location =
                Ptr(frame[t].origin
                      \o (CASE line = Nothing -> <<>>
                            [] line = Just(12) -> <<":", "1", "2">>)
                      \o (CASE start = Nothing -> <<>>
                            [] start = Just(0) -> <<":", "1">>
                            [] start = Just(9) -> <<":", "1", "0">>))

\* an error came back whose message had a line and no column
C18_Witness ==
  \E t \in Threads :
    /\ pc[t] = "Exit" /\ frame[t].op = "RunScript"
    /\ frame[t].tc.hasCaught /\ ~frame[t].tc.hasTerminated
    /\ frame[t].rtn.error.location = Ptr(<<"a", ":", "1", "2">>)

\* C19: ExceptionError is entered only by the thread that holds the
\* Environment's lock through RunScript; its own Locker, Isolate::Scope and
\* HandleScope never wait; when it returns RunScript has the scoped objects
\* it had before; and the thread holds the lock from the start of RunScript
\* to its return, no other thread being inside in between.
C19_NestedLockInExceptionError ==
  /\ [](\A t \in Threads :
          /\ pc[t] \in {"ExceptionError", "ExceptionError_return"} =>
               /\ frame[t].op = "RunScript"
               /\ guards[t][1] = Guard("Locker", frame[t].iso, NullHandle, TRUE)
          /\ pc[t] = "ExceptionError" /\ ~aborted => ENABLED ExceptionErrorCall(t)
          /\ Busy(t) /\ frame[t].op = "RunScript" =>
               /\ locker[frame[t].iso] = t
               /\ \A u \in Threads \ {t} : frame[t].iso \notin Entered(u))
  /\ [][\A t \in Threads :
          /\ pc[t] = "ExceptionError" /\ pc'[t] = "ExceptionError_return" =>
               guards'[t] = guards[t] \o
                 <<Guard("Locker", frame[t].iso, NullHandle, FALSE),
                   Guard("IsolateScope", frame[t].iso, NullHandle, FALSE),
                   Guard("HandleScope", frame[t].iso, NullHandle, FALSE)>>
          /\ pc[t] = "ExceptionError_return" /\ pc'[t] = "Exit" =>
               guards'[t] =
                 <<Guard("Locker", frame[t].iso, NullHandle, TRUE)>>
                   \o Tail(RunScriptGuards(t, frame[t].iso, frame[t].ctx))]_vars

\* ExceptionError has its three scoped objects on top of RunScript's five
\* and another thread is waiting outside
C19_Witness ==
  \E t, u \in Threads :
    /\ t # u /\ pc[u] = "idle"
    /\ pc[t] = "ExceptionError_return" /\ Len(guards[t]) = 8
    /\ ~guards[t][6].has_lock /\ locker[frame[t].iso] = t

====
